---- MODULE Spec2Model ----
(***************************************************************************)
(* A model of the analysis helpers of etdanalyze                           *)
(* (src/etdanalyze/analysis_helpers.py), of its project-table loader       *)
(* (data_loaders.py) and of its configuration (_config.py).                *)
(*                                                                         *)
(* Every helper is a function of its arguments.  Each is modelled by one   *)
(* action that reads the arguments from the state, runs the whole body of  *)
(* the function and stores its outcome in `result`.  The arguments are     *)
(* drawn by the initial predicate of the specification of that helper.     *)
(*                                                                         *)
(*   interval strings  sequences of one-character strings                  *)
(*   numbers           rationals <<numerator, denominator>>, denominator>0 *)
(*   outcomes          [kind |-> "return", value |-> v] or                 *)
(*                     [kind |-> "raise", value |-> <exception class>],    *)
(*                     each with the exception's message in msg            *)
(***************************************************************************)
EXTENDS Integers, Sequences, FiniteSets, TLC

VARIABLES
    pc,             \* "call": the helper has not run yet; "done": it has
    interval,       \* argument `interval` (multiplier, normalize_100m2)
    hh_table,       \* argument `hh_table` (normalize_100m2, aggregate)
    project_table,  \* argument `project_table` (aggregate_project_metrics)
    col_list,       \* argument `col_names` / `col_list`
    df,             \* the caller's DataFrame (filter, extractors)
    project_id,     \* argument `project_id` / `project` of the last call
    marker_arg,     \* the table the external marker received in the last call
    ncalls,         \* number of calls made on the caller's DataFrame
    config,         \* argument `config` of the last set_config call
    options,        \* the attributes of etdmap.options and etdtransform.options
    files,          \* the config.yaml files of the two directories searched
    result          \* outcome of the last call

vars == <<pc, interval, hh_table, project_table, col_list, df, project_id,
          marker_arg, ncalls, config, options, files, result>>

\* the process-wide state that only the configuration functions touch
configuration == <<config, options, files>>

\* what a call of a function that only reads its arguments leaves alone
arguments == <<interval, hh_table, project_table, col_list, df, project_id,
               marker_arg, ncalls, configuration>>

None == "None"

Return(v)   == [kind |-> "return", value |-> v, msg |-> ""]
Raise(e, m) == [kind |-> "raise", value |-> e, msg |-> m]
NoResult    == [kind |-> "none", value |-> None, msg |-> ""]

(***************************************************************************)
(* Bounds of the model.                                                    *)
(***************************************************************************)
MaxLen == 5         \* longest interval string drawn
MaxN == 66          \* largest interval count n the claims quantify over
MaxNormRows == 2    \* most rows of a table given to normalize_100m2
MaxNormCols == 2    \* most column names requested from normalize_100m2
MaxHHRows == 2      \* most rows of a measurement table given to the aggregator
MaxRefRows == 2     \* most rows of a reference table given to the aggregator
MaxDfRows == 3      \* most rows of a DataFrame given to the bounded filter
MaxExtractRows == 3 \* most rows of a DataFrame given to the extractors
MaxCalls == 2       \* most extractor calls made on one DataFrame
MaxFrameRows == 2   \* most rows of a DataFrame that all three helpers are called on
MaxSections == 2    \* most sections of a document given to set_config
MaxFileSections == 1 \* most sections of a document held by a config.yaml

(***************************************************************************)
(* Rational arithmetic (Python floats are modelled by exact rationals).    *)
(***************************************************************************)
RECURSIVE GCD(_, _)
GCD(a, b) == IF b = 0 THEN a ELSE GCD(b, a % b)

Abs(a) == IF a < 0 THEN -a ELSE a

\* n/d in lowest terms, d > 0
Rat(n, d)    == <<n \div GCD(Abs(n), d), d \div GCD(Abs(n), d)>>
RatMul(a, b) == Rat(a[1] * b[1], a[2] * b[2])
RatDiv(a, b) == Rat(a[1] * b[2], a[2] * b[1])      \* b > 0
RatAdd(a, b) == Rat(a[1] * b[2] + b[1] * a[2], a[2] * b[2])
RatEq(a, b) == a[1] * b[2] = b[1] * a[2]
RatLe(a, b) == a[1] * b[2] <= b[1] * a[2]
RatLt(a, b) == a[1] * b[2] < b[1] * a[2]

(***************************************************************************)
(* Characters.  \d of the pattern is modelled on the ASCII digits.         *)
(***************************************************************************)
DigitChars == <<"0", "1", "2", "3", "4", "5", "6", "7", "8", "9">>
Digits == {DigitChars[i] : i \in 1..10}
LowerLetters == {"a", "b", "c", "d", "e", "f", "g", "h", "i", "j", "k", "l", "m",
                 "n", "o", "p", "q", "r", "s", "t", "u", "v", "w", "x", "y", "z"}
UpperLetters == {"A", "B", "C", "D", "E", "F", "G", "H", "I", "J", "K", "L", "M",
                 "N", "O", "P", "Q", "R", "S", "T", "U", "V", "W", "X", "Y", "Z"}
Letters == LowerLetters \cup UpperLetters

\* The characters interval strings are drawn from.
Alphabet == {"0", "5", "6", "h", "m", "i", "n", "H", " "}

StringsUpTo(n) == UNION {[1..k -> Alphabet] : k \in 0..n}

DigitVal(c) == CHOOSE d \in 0..9 : DigitChars[d + 1] = c

\* int(number) for a string of digits
RECURSIVE ParseInt(_)
ParseInt(s) ==
    IF s = <<>> THEN 0
    ELSE 10 * ParseInt(SubSeq(s, 1, Len(s) - 1)) + DigitVal(s[Len(s)])

\* Length of the longest run of characters of `set` in s starting at position i.
RECURSIVE RunLen(_, _, _)
RunLen(s, i, set) ==
    IF i <= Len(s) /\ s[i] \in set THEN 1 + RunLen(s, i + 1, set) ELSE 0

(***************************************************************************)
(* re.match(r"(\d+)([a-zA-Z]+)", interval): anchored at the start only,    *)
(* both groups greedy.  Giving back digits never helps the second group,   *)
(* so the match is the longest digit run followed by the longest letter    *)
(* run, each at least one character; whatever follows is ignored.          *)
(***************************************************************************)
ReMatch(s) ==
    LET d == RunLen(s, 1, Digits)
        l == RunLen(s, d + 1, Letters)
    IN  IF d >= 1 /\ l >= 1
        THEN [matched |-> TRUE, number |-> SubSeq(s, 1, d),
              word |-> SubSeq(s, d + 1, d + l)]
        ELSE [matched |-> FALSE, number |-> <<>>, word |-> <<>>]

\* raise ValueError(f"expected interval to be either in unit 'min' or 'h', ...")
InvalidIntervalError ==
    Raise("ValueError", "expected interval to be either in unit 'min' or 'h'")

\* reading the local `word`, which no assignment has bound
UnboundWordError == Raise("UnboundLocalError", "word")

\* 1/int(number) and 60/int(number): true division, ZeroDivisionError on 0
Divide(k, number) ==
    IF ParseInt(number) = 0 THEN Raise("ZeroDivisionError", "division by zero")
    ELSE Return(Rat(k, ParseInt(number)))

UnitMultiplierSwapped(number, word) ==
    IF word = <<"h">> THEN Divide(60, number)
    ELSE IF word = <<"m", "i", "n">> THEN Divide(1, number)
    ELSE InvalidIntervalError

UnitMultiplierLenient(number, word) ==
    IF word = <<"h">> THEN Divide(1, number)
    ELSE IF word = <<"m", "i", "n">> THEN Divide(60, number)
    ELSE Divide(1, number)

\* the if / elif / else on `word`
UnitMultiplier(number, word) ==
    IF word = <<"h">> THEN Divide(1, number)
    ELSE IF word = <<"m", "i", "n">> THEN Divide(60, number)
    ELSE InvalidIntervalError

\* multiplier_to_convert_to_KWH(interval).  Without a match `number` and
\* `word` are never bound and reading `word` raises UnboundLocalError.
multiplier_to_convert_to_KWH(s) ==
    LET match == ReMatch(s)
    IN  IF match.matched THEN UnitMultiplier(match.number, match.word)
        ELSE UnboundWordError

(***************************************************************************)
(* Specification of the interval-to-multiplier converter.                  *)
(***************************************************************************)
InitInterval ==
    /\ pc = "call"
    /\ interval \in StringsUpTo(MaxLen)
    /\ hh_table = None
    /\ project_table = None
    /\ col_list = None
    /\ df = None
    /\ project_id = None
    /\ marker_arg = None
    /\ ncalls = 0
    /\ config = None
    /\ options = None
    /\ files = None
    /\ result = NoResult

CallMultiplier ==
    /\ pc = "call"
    /\ result' = multiplier_to_convert_to_KWH(interval)
    /\ pc' = "done"
    /\ UNCHANGED arguments

NextInterval == CallMultiplier

SpecInterval == InitInterval /\ [][NextInterval]_vars

(***************************************************************************)
(* Claims about the converter.                                             *)
(***************************************************************************)
\* n written in decimal digits, without leading zeros
RECURSIVE Decimal(_)
Decimal(n) ==
    IF n < 10 THEN <<DigitChars[n + 1]>>
    ELSE Decimal(n \div 10) \o <<DigitChars[(n % 10) + 1]>>

\* s has the form <digits><letters>, the digits ending at position k
SplitsAt(s, k) ==
    /\ k \in 1..(Len(s) - 1)
    /\ \A i \in 1..k : s[i] \in Digits
    /\ \A i \in (k + 1)..Len(s) : s[i] \in Letters

HasForm(s) == \E k \in 1..Len(s) : SplitsAt(s, k)

Hour == <<"h">>
Minute == <<"m", "i", "n">>

\* C1: for every integer n >= 1 written in decimal digits, "<n>h" returns
\* exactly 1/n and "<n>min" returns exactly 60/n.
C1_MultiplierOfValidInterval ==
    pc = "done" =>
        \A n \in 1..MaxN :
            /\ interval = Decimal(n) \o Hour =>
                   result.kind = "return" /\ RatEq(result.value, Rat(1, n))
            /\ interval = Decimal(n) \o Minute =>
                   result.kind = "return" /\ RatEq(result.value, Rat(60, n))

\* "60min" has been converted and gave 1
C1_Witness ==
    /\ pc = "done"
    /\ interval = <<"6", "0", "m", "i", "n">>
    /\ result.kind = "return"
    /\ RatEq(result.value, Rat(1, 1))

\* C2: an input <digits><letters> whose letter part is neither "h" nor "min"
\* fails with ValueError and returns no multiplier.
C2_UnsupportedUnitIsValueError ==
    pc = "done" =>
        \A k \in 1..Len(interval) :
            (SplitsAt(interval, k)
                 /\ SubSeq(interval, k + 1, Len(interval)) \notin {Hour, Minute})
            => result = InvalidIntervalError

\* "5H" and "5mi" have been refused
C2_Witness ==
    /\ pc = "done"
    /\ interval \in {<<"5", "H">>, <<"5", "m", "i">>, <<"0", "h", "h">>}
    /\ result = InvalidIntervalError

\* C3: an input that does not have the form <digits><letters> fails with the
\* same ValueError; it never returns a multiplier and never fails otherwise.
C3_MalformedIsValueError ==
    (pc = "done" /\ ~HasForm(interval)) => result = InvalidIntervalError

(***************************************************************************)
(* normalize_100m2.  An ibis table is [type, columns, rows]: the set of    *)
(* its column names and the sequence of its rows, each row a function from *)
(* the column names to rationals.                                          *)
(***************************************************************************)
Table(cols, rows) == [type |-> "Table", columns |-> cols, rows |-> rows]

\* an argument that is no ibis table
NotATable == [type |-> "DataFrame", columns |-> {}, rows |-> <<>>]

MissingColumnError ==
    Raise("ValueError", "Missing column 'Oppervlakte' in ibis table.")

\* hh_table[col] for a name that is no column of the table
ColumnNotFound(col) == Raise("IbisTypeError", col)

\* f"{col}Per100M2KW"
DerivedName(col) == col \o "Per100M2KW"

\* multiplier * 100 * (hh_table[col] / hh_table["Oppervlakte"]) in one row
DerivedValueNoScale(m, row, col) ==
    RatMul(m, RatDiv(row[col], row["Oppervlakte"]))

DerivedValue(m, row, col) ==
    RatMul(RatMul(m, Rat(100, 1)), RatDiv(row[col], row["Oppervlakte"]))

\* The for loop over col_names from position i on: kwargs maps each derived
\* name to the column its expression reads; a repeated name overwrites.
RECURSIVE BuildKwargs(_, _, _)
BuildKwargs(cols, i, kwargs) ==
    IF i > Len(cols) THEN kwargs
    ELSE BuildKwargs(cols, i + 1,
             [n \in (DOMAIN kwargs) \cup {DerivedName(cols[i])} |->
                 IF n = DerivedName(cols[i]) THEN cols[i] ELSE kwargs[n]])

\* hh_table.mutate(**kwargs): every expression reads the table as it was
\* given; a name that is already a column replaces that column.
Mutate(t, m, kwargs) ==
    Table(t.columns \cup DOMAIN kwargs,
          [r \in 1..Len(t.rows) |->
              [c \in t.columns \cup DOMAIN kwargs |->
                  IF c \in DOMAIN kwargs
                  THEN DerivedValue(m, t.rows[r], kwargs[c])
                  ELSE t.rows[r][c]]])

\* the columns the loop reads that the table does not have, by position
MissingAt(t, cols) ==
    {i \in 1..Len(cols) : {cols[i], "Oppervlakte"} \ t.columns # {}}

FirstOf(S) == CHOOSE i \in S : \A j \in S : i <= j

\* lines 109-118: parse the interval, build the expressions, mutate
NormalizeBody(t, cols, iv) ==
    LET multiplier == multiplier_to_convert_to_KWH(iv)
    IN  IF multiplier.kind = "raise" THEN multiplier
        ELSE IF MissingAt(t, cols) # {}
        THEN LET c == cols[FirstOf(MissingAt(t, cols))]
             IN  ColumnNotFound(IF c \in t.columns THEN "Oppervlakte" ELSE c)
        ELSE Return(Mutate(t, multiplier.value,
                           BuildKwargs(cols, 1, [n \in {} |-> ""])))

normalize_100m2_ParseFirst(t, cols, iv) ==
    IF t.type # "Table" THEN Raise("TypeError", "Expected an Ibis table")
    ELSE IF multiplier_to_convert_to_KWH(iv).kind = "raise"
    THEN multiplier_to_convert_to_KWH(iv)
    ELSE IF "Oppervlakte" \notin t.columns THEN MissingColumnError
    ELSE NormalizeBody(t, cols, iv)

normalize_100m2(t, cols, iv) ==
    IF t.type # "Table" THEN Raise("TypeError", "Expected an Ibis table")
    ELSE IF "Oppervlakte" \notin t.columns THEN MissingColumnError
    ELSE NormalizeBody(t, cols, iv)

(***************************************************************************)
(* Specification of the per-area normaliser: a table over some of the      *)
(* columns Oppervlakte, X and XPer100M2KW (floor areas are positive), a    *)
(* list of requested columns, Y being a column no table has, and an        *)
(* interval.                                                               *)
(***************************************************************************)
NormColumns == {"Oppervlakte", "X", "XPer100M2KW"}
NormRequested == {"X", "XPer100M2KW", "Y"}
AreaValues == {Rat(50, 1), Rat(100, 1)}
MetricValues == {Rat(30, 1), Rat(200, 1)}

NormRows(cols) ==
    {row \in [cols -> AreaValues \cup MetricValues] :
        \A c \in cols :
            row[c] \in (IF c = "Oppervlakte" THEN AreaValues ELSE MetricValues)}

NormTables ==
    {NotATable} \cup
    UNION {{Table(cols, rows) :
               rows \in UNION {[1..k -> NormRows(cols)] : k \in 0..MaxNormRows}} :
           cols \in SUBSET NormColumns}

NormIntervals ==
    {<<"6", "0", "m", "i", "n">>, <<"5", "m", "i", "n">>, <<"6", "h">>,
     <<"0", "h">>, <<"5", "H">>, <<"5">>}

InitNormalize ==
    /\ pc = "call"
    /\ interval \in NormIntervals
    /\ hh_table \in NormTables
    /\ col_list \in UNION {[1..k -> NormRequested] : k \in 0..MaxNormCols}
    /\ project_table = None
    /\ df = None
    /\ project_id = None
    /\ marker_arg = None
    /\ ncalls = 0
    /\ config = None
    /\ options = None
    /\ files = None
    /\ result = NoResult

CallNormalize ==
    /\ pc = "call"
    /\ result' = normalize_100m2(hh_table, col_list, interval)
    /\ pc' = "done"
    /\ UNCHANGED arguments

NextNormalize == CallNormalize

SpecNormalize == InitNormalize /\ [][NextNormalize]_vars

(***************************************************************************)
(* Claims about the normaliser.                                            *)
(***************************************************************************)
Requested == {col_list[i] : i \in 1..Len(col_list)}

\* a table with a floor-area column, requested columns the table has, and
\* the interval "<n><unit>"
NormalizeCase(n, unit) ==
    /\ pc = "done"
    /\ hh_table.type = "Table"
    /\ "Oppervlakte" \in hh_table.columns
    /\ Requested \subseteq hh_table.columns
    /\ interval = Decimal(n) \o unit

\* the returned table has the rows of the input, and in each row the input
\* columns `kept` with their values and, for each requested column X, a
\* column XPer100M2KW of value (k/n) * 100 * (X / Oppervlakte)
NormalizedBy(k, n, kept) ==
    /\ result.kind = "return"
    /\ Len(result.value.rows) = Len(hh_table.rows)
    /\ kept \subseteq result.value.columns
    /\ \A X \in Requested : (X \o "Per100M2KW") \in result.value.columns
    /\ \A r \in 1..Len(hh_table.rows) :
           /\ \A c \in kept : result.value.rows[r][c] = hh_table.rows[r][c]
           /\ \A X \in Requested :
                  LET x == hh_table.rows[r][X]
                      area == hh_table.rows[r]["Oppervlakte"]
                      y == result.value.rows[r][X \o "Per100M2KW"]
                  IN  y[1] * n * x[2] * area[1] = k * 100 * x[1] * area[2] * y[2]

\* C4: a table without the column 'Oppervlakte' fails with the missing-column
\* ValueError, whatever the requested columns and the interval.
C4_MissingAreaIsValueError ==
    (pc = "done" /\ hh_table.type = "Table"
        /\ "Oppervlakte" \notin hh_table.columns)
    => result = MissingColumnError

\* refused for a missing floor area although a requested column is absent
\* too and the interval cannot be parsed
C4_Witness ==
    /\ pc = "done"
    /\ hh_table.type = "Table"
    /\ hh_table.columns = {"X"}
    /\ col_list = <<"Y">>
    /\ interval = <<"5">>
    /\ result = MissingColumnError

\* C5 as stated: every column of the input keeps its values and every
\* requested X has a column XPer100M2KW = multiplier * 100 * (X / area),
\* also when the input has a column named XPer100M2KW.
C5_AllInputColumnsKept ==
    \A n \in 1..MaxN :
        /\ NormalizeCase(n, Hour) => NormalizedBy(1, n, hh_table.columns)
        /\ NormalizeCase(n, Minute) => NormalizedBy(60, n, hh_table.columns)

\* C5 amended: the derived columns are as stated, and every input column
\* keeps its values except those named XPer100M2KW for a requested X, which
\* the derived column replaces.
C5_DerivedColumnsReplace ==
    LET kept == hh_table.columns \ {X \o "Per100M2KW" : X \in Requested}
    IN  \A n \in 1..MaxN :
            /\ NormalizeCase(n, Hour) => NormalizedBy(1, n, kept)
            /\ NormalizeCase(n, Minute) => NormalizedBy(60, n, kept)

\* X = 200 over a floor area of 50 at "60min" gave 400, in place of the
\* XPer100M2KW the input had
C5_Witness ==
    /\ NormalizeCase(60, Minute)
    /\ col_list = <<"X">>
    /\ hh_table.columns = NormColumns
    /\ Len(hh_table.rows) = 2
    /\ hh_table.rows[1]["X"] = Rat(200, 1)
    /\ hh_table.rows[1]["Oppervlakte"] = Rat(50, 1)
    /\ hh_table.rows[1]["XPer100M2KW"] = Rat(30, 1)
    /\ result.kind = "return"
    /\ RatEq(result.value.rows[1]["XPer100M2KW"], Rat(400, 1))

(***************************************************************************)
(* aggregate_project_metrics.  Key columns hold a project id and a reading *)
(* date, metric columns hold rationals; no cell is NULL.                   *)
(***************************************************************************)
KeyColumns == {"ProjectIdBSV", "ReadingDate"}

\* the values a row is joined and grouped on
RowKey(row) == <<row["ProjectIdBSV"], row["ReadingDate"]>>

SemiJoinKeepAll(t, ref) == t

\* hh_table.semi_join(project_table, ["ReadingDate", "ProjectIdBSV"]): the
\* rows of t, each once, that some row of ref matches; the columns of t
SemiJoin(t, ref) ==
    LET Matches(row) ==
            \E j \in 1..Len(ref.rows) : RowKey(ref.rows[j]) = RowKey(row)
    IN  Table(t.columns, SelectSeq(t.rows, Matches))

\* group_by("ProjectIdBSV", "ReadingDate"): the keys of the rows from
\* position i on that are not in acc, in order of first appearance
RECURSIVE GroupKeys(_, _, _)
GroupKeys(rows, i, acc) ==
    IF i > Len(rows) THEN acc
    ELSE IF \E g \in 1..Len(acc) : acc[g] = RowKey(rows[i])
    THEN GroupKeys(rows, i + 1, acc)
    ELSE GroupKeys(rows, i + 1, Append(acc, RowKey(rows[i])))

\* <<sum, count>> of column col over the rows of key k from position i on
RECURSIVE Accumulate(_, _, _, _)
Accumulate(rows, i, k, col) ==
    IF i > Len(rows) THEN <<Rat(0, 1), 0>>
    ELSE LET rest == Accumulate(rows, i + 1, k, col)
         IN  IF RowKey(rows[i]) = k
             THEN <<RatAdd(rows[i][col], rest[1]), rest[2] + 1>>
             ELSE rest

GroupSum(rows, k, col) == Accumulate(rows, 1, k, col)[1]

\* x[col].mean() within the group of key k
GroupMean(rows, k, col) ==
    LET acc == Accumulate(rows, 1, k, col)
    IN  RatDiv(acc[1], Rat(acc[2], 1))

\* x.group_by(...).aggregate(**agg_kwargs): one row per group, holding the
\* key and the mean of each requested column
Aggregate(x, cols) ==
    LET keys == GroupKeys(x.rows, 1, <<>>)
    IN  Table(KeyColumns \cup cols,
              [g \in 1..Len(keys) |->
                  [c \in KeyColumns \cup cols |->
                      IF c = "ProjectIdBSV" THEN keys[g][1]
                      ELSE IF c = "ReadingDate" THEN keys[g][2]
                      ELSE GroupMean(x.rows, keys[g], c)]])

\* The backend returns the groups in an order of its choosing.
Reorder(t, order) ==
    Table(t.columns, [g \in 1..Len(t.rows) |-> t.rows[order[g]]])

\* aggregate_project_metrics(hh_table, project_table, col_list); x[col]
\* fails for a name that is no column of the semi-join
aggregate_project_metrics(hh, ref, cols, order) ==
    LET x == SemiJoin(hh, ref)
        requested == {cols[i] : i \in 1..Len(cols)}
        missing == {i \in 1..Len(cols) : cols[i] \notin x.columns}
    IN  IF missing # {} THEN ColumnNotFound(cols[FirstOf(missing)])
        ELSE Return(Reorder(Aggregate(x, requested), order))

(***************************************************************************)
(* Specification of the aggregator: measurement rows of two projects on    *)
(* two dates with a metric and a floor area, reference rows that carry a   *)
(* metric of the same name, and a non-empty list of requested columns, Y   *)
(* being a column no table has.                                            *)
(***************************************************************************)
ProjectIds == {"P1", "P2"}
ReadingDates == {1, 2}

HHRows ==
    [ProjectIdBSV : ProjectIds, ReadingDate : ReadingDates,
     Warmtebehoefte : {Rat(1, 1), Rat(4, 1)}, Oppervlakte : {Rat(50, 1)}]

RefRows ==
    [ProjectIdBSV : ProjectIds, ReadingDate : ReadingDates,
     Warmtebehoefte : {Rat(9, 1)}]

AggColLists ==
    {<<"Warmtebehoefte">>, <<"Oppervlakte">>, <<"Warmtebehoefte", "Oppervlakte">>,
     <<"Warmtebehoefte", "Warmtebehoefte">>, <<"Y">>}

InitAggregate ==
    /\ pc = "call"
    /\ hh_table \in
           {Table(KeyColumns \cup {"Warmtebehoefte", "Oppervlakte"}, rows) :
               rows \in UNION {[1..k -> HHRows] : k \in 0..MaxHHRows}}
    /\ project_table \in
           {Table(KeyColumns \cup {"Warmtebehoefte"}, rows) :
               rows \in UNION {[1..k -> RefRows] : k \in 0..MaxRefRows}}
    /\ col_list \in AggColLists
    /\ interval = None
    /\ df = None
    /\ project_id = None
    /\ marker_arg = None
    /\ ncalls = 0
    /\ config = None
    /\ options = None
    /\ files = None
    /\ result = NoResult

CallAggregate ==
    /\ pc = "call"
    /\ \E order \in Permutations(
               1..Len(GroupKeys(SemiJoin(hh_table, project_table).rows, 1, <<>>))) :
           result' = aggregate_project_metrics(hh_table, project_table,
                                               col_list, order)
    /\ pc' = "done"
    /\ UNCHANGED arguments

NextAggregate == CallAggregate

SpecAggregate == InitAggregate /\ [][NextAggregate]_vars

(***************************************************************************)
(* Claims about the aggregator.                                            *)
(***************************************************************************)
KeysOf(t) == {<<t.rows[i]["ProjectIdBSV"], t.rows[i]["ReadingDate"]>> :
                 i \in 1..Len(t.rows)}

\* the positions of the rows of t that have key k
RowsWithKey(t, k) ==
    {i \in 1..Len(t.rows) :
        t.rows[i]["ProjectIdBSV"] = k[1] /\ t.rows[i]["ReadingDate"] = k[2]}

\* the sum of column col of t over the rows at the positions S
RECURSIVE SumOver(_, _, _)
SumOver(t, S, col) ==
    IF S = {} THEN Rat(0, 1)
    ELSE LET i == CHOOSE j \in S : TRUE
         IN  RatAdd(t.rows[i][col], SumOver(t, S \ {i}, col))

\* C6: the number of output rows is the number of distinct (project id,
\* reading date) pairs that occur in both tables, whatever the duplicates.
C6_RowCountIsCommonKeys ==
    (pc = "done" /\ result.kind = "return") =>
        Len(result.value.rows)
            = Cardinality(KeysOf(hh_table) \cap KeysOf(project_table))

\* two measurement rows and two reference rows, all of one key, gave one row
C6_Witness ==
    /\ pc = "done"
    /\ result.kind = "return"
    /\ Len(hh_table.rows) = 2
    /\ Len(project_table.rows) = 2
    /\ Cardinality(KeysOf(hh_table) \cup KeysOf(project_table)) = 1
    /\ Len(result.value.rows) = 1

\* C7: each output row carries, for every requested metric, the mean of that
\* metric over exactly the measurement rows of its key, each counted once;
\* the output has the two key columns and the requested metrics only.
C7_MeanOverMeasurementRows ==
    (pc = "done" /\ result.kind = "return") =>
        /\ result.value.columns = KeyColumns \cup Requested
        /\ \A g \in 1..Len(result.value.rows) :
               LET out == result.value.rows[g]
                   S == RowsWithKey(hh_table,
                                    <<out["ProjectIdBSV"], out["ReadingDate"]>>)
               IN  /\ S # {}
                   /\ \A c \in Requested :
                          RatEq(RatMul(out[c], Rat(Cardinality(S), 1)),
                                SumOver(hh_table, S, c))

\* values 1 and 4 of one key, matched by two reference rows, gave the mean 5/2
C7_Witness ==
    /\ pc = "done"
    /\ result.kind = "return"
    /\ col_list = <<"Warmtebehoefte">>
    /\ Len(project_table.rows) = 2
    /\ Cardinality(KeysOf(project_table)) = 1
    /\ \E i, j \in 1..Len(hh_table.rows) :
           /\ RowKey(hh_table.rows[i]) \in KeysOf(project_table)
           /\ RowKey(hh_table.rows[j]) \in KeysOf(project_table)
           /\ hh_table.rows[i]["Warmtebehoefte"] = Rat(1, 1)
           /\ hh_table.rows[j]["Warmtebehoefte"] = Rat(4, 1)
    /\ Len(result.value.rows) = 1
    /\ result.value.rows[1]["Warmtebehoefte"] = Rat(5, 2)

(***************************************************************************)
(* pandas DataFrames: [type, columns, rows], each row a function from the  *)
(* column names and "index" (the row's index label) to its cells.  Floats  *)
(* are rationals, and NaN is <<0, 0>>: every comparison with it is false.  *)
(***************************************************************************)
DataFrame(cols, rows) == [type |-> "DataFrame", columns |-> cols, rows |-> rows]

NaN == <<0, 0>>
IsNaN(x) == x[2] = 0
FloatLe(a, b) == ~IsNaN(a) /\ ~IsNaN(b) /\ RatLe(a, b)
FloatLt(a, b) == ~IsNaN(a) /\ ~IsNaN(b) /\ RatLt(a, b)
FloatTimes10(x) == IF IsNaN(x) THEN NaN ELSE RatMul(x, Rat(10, 1))

FilterByProjectKeepAll(d, project) == d

\* df[df["ProjectIdBSV"] == project_id]: a new frame of the matching rows
FilterByProject(d, project) ==
    LET Matches(row) == row["ProjectIdBSV"] = project
    IN  DataFrame(d.columns, SelectSeq(d.rows, Matches))

\* df[col] as a sequence of floats
Column(d, col) == [i \in 1..Len(d.rows) |-> Rat(d.rows[i][col], 1)]

RECURSIVE Insert(_, _)
Insert(x, s) ==
    IF s = <<>> THEN <<x>>
    ELSE IF RatLe(x, Head(s)) THEN <<x>> \o s
    ELSE <<Head(s)>> \o Insert(x, Tail(s))

\* the values in ascending order
RECURSIVE SortValues(_)
SortValues(s) == IF s = <<>> THEN <<>> ELSE Insert(Head(s), SortValues(Tail(s)))

\* Series.quantile(pct / 100), linear interpolation between the two order
\* statistics around position (n - 1) * pct / 100; NaN for no values
Quantile(values, pct) ==
    IF values = <<>> THEN NaN
    ELSE LET s == SortValues(values)
             h == (Len(s) - 1) * pct
             lo == (h \div 100) + 1
             frac == Rat(h % 100, 100)
         IN  IF h % 100 = 0 THEN s[lo]
             ELSE RatAdd(s[lo],
                         RatMul(frac, RatAdd(s[lo + 1], RatMul(Rat(-1, 1), s[lo]))))

\* Series.min(); NaN for no values
Min(values) == IF values = <<>> THEN NaN ELSE SortValues(values)[1]

UpperBound(values) == FloatTimes10(Quantile(values, 99))

LowerBoundOnMinimum(values) ==
    IF FloatLt(Min(values), Rat(0, 1))
    THEN FloatTimes10(Quantile(values, 1))
    ELSE Rat(0, 1)

\* lines 183-187
LowerBound(values) ==
    IF FloatLt(Min(values), Rat(0, 1)) /\ FloatLt(Quantile(values, 1), Rat(0, 1))
    THEN FloatTimes10(Quantile(values, 1))
    ELSE Rat(0, 1)

WithinBoundsStrict(x, lower, upper) == FloatLt(x, upper) /\ FloatLt(lower, x)

\* (df[diff_column] <= upper_bound) & (df[diff_column] >= lower_bound)
WithinBounds(x, lower, upper) == FloatLe(x, upper) /\ FloatLe(lower, x)

\* lines 181-189 on the frame the bounds are taken over
FilterBetween(d, diff_column) ==
    LET values == Column(d, diff_column)
        upper_bound == UpperBound(values)
        lower_bound == LowerBound(values)
        Keep(row) == WithinBounds(Rat(row[diff_column], 1), lower_bound, upper_bound)
    IN  DataFrame(d.columns, SelectSeq(d.rows, Keep))

filter_between_AfterBounds(d, diff_column, project) ==
    LET values == Column(d, diff_column)
        upper_bound == UpperBound(values)
        lower_bound == LowerBound(values)
        Keep(row) == WithinBounds(Rat(row[diff_column], 1), lower_bound, upper_bound)
        kept == DataFrame(d.columns, SelectSeq(d.rows, Keep))
    IN  Return(IF project # None THEN FilterByProject(kept, project) ELSE kept)

filter_between_upper_lower_bounds(d, diff_column, project) ==
    Return(FilterBetween(IF project # None THEN FilterByProject(d, project) ELSE d,
                         diff_column))

(***************************************************************************)
(* Specification of the bounded-range filter: a frame with the columns     *)
(* ProjectIdBSV and Diff and the default index 0, 1, ..., and a project id *)
(* or None; P3 is the id of no row.                                        *)
(***************************************************************************)
DiffValues == {-100, -1, 0, 1, 100}
FilterProjects == {None} \cup ProjectIds \cup {"P3"}

DiffFrames ==
    {DataFrame({"ProjectIdBSV", "Diff"},
               [i \in 1..k |-> [index |-> i - 1, ProjectIdBSV |-> p[i],
                                Diff |-> v[i]]]) :
        <<k, p, v>> \in
            UNION {{k} \X [1..k -> ProjectIds] \X [1..k -> DiffValues] :
                      k \in 0..MaxDfRows}}

InitFilter ==
    /\ pc = "call"
    /\ df \in DiffFrames
    /\ project_id \in FilterProjects
    /\ interval = None
    /\ hh_table = None
    /\ project_table = None
    /\ col_list = None
    /\ marker_arg = None
    /\ ncalls = 0
    /\ config = None
    /\ options = None
    /\ files = None
    /\ result = NoResult

CallFilter ==
    /\ pc = "call"
    /\ result' = filter_between_upper_lower_bounds(df, "Diff", project_id)
    /\ pc' = "done"
    /\ UNCHANGED arguments

NextFilter == CallFilter

SpecFilter == InitFilter /\ [][NextFilter]_vars

(***************************************************************************)
(* Claims about the bounded-range filter.                                  *)
(***************************************************************************)
\* the positions of the rows of the caller's frame the bounds are taken
\* over: those of the requested project, or all without a project id
Bounded ==
    {i \in 1..Len(df.rows) :
        project_id = None \/ df.rows[i]["ProjectIdBSV"] = project_id}

\* the values of column Diff at the positions S, by position
RECURSIVE ValuesAt(_)
ValuesAt(S) ==
    IF S = {} THEN <<>>
    ELSE LET i == CHOOSE j \in S : \A k \in S : j <= k
         IN  <<Rat(df.rows[i]["Diff"], 1)>> \o ValuesAt(S \ {i})

P1(S) == Quantile(ValuesAt(S), 1)
P99(S) == Quantile(ValuesAt(S), 99)
MinimumNegative(S) == \E i \in S : df.rows[i]["Diff"] < 0

\* the rows at the positions S whose value lies within [lower, upper]
RowsWithin(S, lower, upper) ==
    {df.rows[i] : i \in {j \in S : /\ FloatLe(lower, Rat(df.rows[j]["Diff"], 1))
                                   /\ FloatLe(Rat(df.rows[j]["Diff"], 1), upper)}}

ReturnedRows == {result.value.rows[i] : i \in 1..Len(result.value.rows)}

\* C8: upper = 10 * P99; lower = 10 * P1 when the minimum and P1 are both
\* negative and exactly 0 otherwise; the result is exactly the rows with
\* lower <= value <= upper.
C8_BoundsAndInclusiveRange ==
    pc = "done" =>
        LET values == ValuesAt(Bounded)
            upper == UpperBound(values)
            lower == LowerBound(values)
        IN  /\ upper = FloatTimes10(P99(Bounded))
            /\ (MinimumNegative(Bounded) /\ FloatLt(P1(Bounded), Rat(0, 1)))
                   => lower = FloatTimes10(P1(Bounded))
            /\ ~(MinimumNegative(Bounded) /\ FloatLt(P1(Bounded), Rat(0, 1)))
                   => lower = Rat(0, 1)
            /\ result.kind = "return"
            /\ ReturnedRows = RowsWithin(Bounded, lower, upper)
            /\ Len(result.value.rows) = Cardinality(ReturnedRows)

\* -1 and 100: the minimum is negative, P1 = 0.01 is not, so lower is 0 and
\* only 100 is returned
C8_Witness ==
    /\ pc = "done"
    /\ project_id = None
    /\ ValuesAt(Bounded) = <<Rat(-1, 1), Rat(100, 1)>>
    /\ MinimumNegative(Bounded)
    /\ P1(Bounded) = Rat(1, 100)
    /\ LowerBound(ValuesAt(Bounded)) = Rat(0, 1)
    /\ Len(result.value.rows) = 1
    /\ result.value.rows[1]["Diff"] = 100

\* C9: with a project id the minimum, P1 and P99 are taken over the rows of
\* that project only and every returned row has that project id; without
\* one they are taken over all rows.
C9_ProjectFirstThenBounds ==
    pc = "done" =>
        LET S == IF project_id = None THEN 1..Len(df.rows)
                 ELSE {i \in 1..Len(df.rows) :
                          df.rows[i]["ProjectIdBSV"] = project_id}
            lower == IF MinimumNegative(S) /\ FloatLt(P1(S), Rat(0, 1))
                     THEN FloatTimes10(P1(S)) ELSE Rat(0, 1)
        IN  /\ result.kind = "return"
            /\ \A row \in ReturnedRows :
                   project_id # None => row["ProjectIdBSV"] = project_id
            /\ ReturnedRows = RowsWithin(S, lower, FloatTimes10(P99(S)))

\* P1's rows -1 and 0 next to a row 100 of P2: over P1 alone upper is -0.1
\* and only -1 is returned; over all rows both would lie within the bounds
C9_Witness ==
    /\ pc = "done"
    /\ project_id = "P1"
    /\ ValuesAt(Bounded) = <<Rat(-1, 1), Rat(0, 1)>>
    /\ Len(df.rows) = 3
    /\ \E i \in 1..3 : df.rows[i]["ProjectIdBSV"] = "P2" /\ df.rows[i]["Diff"] = 100
    /\ Len(result.value.rows) = 1
    /\ result.value.rows[1]["Diff"] = -1
    /\ Cardinality(RowsWithin(Bounded,
                              LowerBound(Column(df, "Diff")),
                              UpperBound(Column(df, "Diff")))) = 2

\* C16: the filter only removes extreme values: for a non-empty column every
\* row whose value lies between P1 and P99 is retained, so the result is not
\* empty and lower <= upper, also when P99 is negative.
C16_PercentileRangeRetained ==
    (pc = "done" /\ Bounded # {}) =>
        /\ result.kind = "return"
        /\ \A i \in Bounded :
               (/\ FloatLe(P1(Bounded), Rat(df.rows[i]["Diff"], 1))
                /\ FloatLe(Rat(df.rows[i]["Diff"], 1), P99(Bounded)))
               => df.rows[i] \in ReturnedRows
        /\ ReturnedRows # {}
        /\ FloatLe(LowerBound(ValuesAt(Bounded)), UpperBound(ValuesAt(Bounded)))

(***************************************************************************)
(* extract_coldest_weeks and extract_highest_peak_weeks.  The markers of   *)
(* etdtransform.calculated_columns are external: a marker returns one      *)
(* boolean per row of the frame it is given, and any such marking can      *)
(* come back.                                                              *)
(***************************************************************************)
\* df[col] = marking: the column is added to the frame, or overwritten
SetColumn(d, col, marking) ==
    DataFrame(d.columns \cup {col},
              [i \in 1..Len(d.rows) |->
                  [c \in (DOMAIN d.rows[i]) \cup {col} |->
                      IF c = col THEN marking[i] ELSE d.rows[i][c]]])

\* df[df[col]]: a new frame of the rows whose cell in col is True
SelectMarked(d, col) ==
    LET Marked(row) == row[col]
    IN  DataFrame(d.columns, SelectSeq(d.rows, Marked))

\* the frame the local name df is bound to after the optional pre-filter:
\* a new frame with a project id, the caller's own frame without
Prefiltered(d, project) ==
    IF project # None THEN FilterByProject(d, project) ELSE d

\* The body of either extractor, col being the marker column it sets.  The
\* outcome holds what the call returns (returned), what the marker was
\* given (marked) and the caller's frame after the call (caller): the
\* column assignment acts on the caller's frame when no project id was
\* given, and on the new frame of the pre-filter otherwise.
Extract(d, col, project, marking) ==
    LET local == Prefiltered(d, project)
        assigned == SetColumn(local, col, marking)
    IN  [returned |-> SelectMarked(assigned, col),
         marked |-> local,
         caller |-> IF project # None THEN d ELSE assigned]

extract_coldest_weeks(d, project, marking) ==
    Extract(d, "Koudste2WkTemperatuur", project, marking)

extract_highest_peak_weeks(d, project, marking) ==
    Extract(d, "HoogstePiekWeek", project, marking)

(***************************************************************************)
(* Specification of the extractors: a caller's frame with the column       *)
(* ProjectIdBSV and the default index, on which the extractors are called  *)
(* up to MaxCalls times, each time with a project id or None and with      *)
(* whatever marking the marker returns.                                    *)
(***************************************************************************)
ExtractFrames ==
    {DataFrame({"ProjectIdBSV"},
               [i \in 1..k |-> [index |-> i - 1, ProjectIdBSV |-> p[i]]]) :
        <<k, p>> \in UNION {{k} \X [1..k -> ProjectIds] : k \in 0..MaxExtractRows}}

InitExtract ==
    /\ pc = "call"
    /\ df \in ExtractFrames
    /\ project_id = None
    /\ interval = None
    /\ hh_table = None
    /\ project_table = None
    /\ col_list = None
    /\ marker_arg = None
    /\ ncalls = 0
    /\ config = None
    /\ options = None
    /\ files = None
    /\ result = NoResult

Markings(d, project) == [1..Len(Prefiltered(d, project).rows) -> BOOLEAN]

CallExtractColdest ==
    /\ ncalls < MaxCalls
    /\ \E project \in FilterProjects :
       \E marking \in Markings(df, project) :
           LET out == extract_coldest_weeks(df, project, marking)
           IN  /\ project_id' = project
               /\ marker_arg' = [table |-> out.marked, marking |-> marking]
               /\ df' = out.caller
               /\ result' = Return(out.returned)
    /\ ncalls' = ncalls + 1
    /\ pc' = "done"
    /\ UNCHANGED <<interval, hh_table, project_table, col_list, configuration>>

CallExtractPeak ==
    /\ ncalls < MaxCalls
    /\ \E project \in FilterProjects :
       \E marking \in Markings(df, project) :
           LET out == extract_highest_peak_weeks(df, project, marking)
           IN  /\ project_id' = project
               /\ marker_arg' = [table |-> out.marked, marking |-> marking]
               /\ df' = out.caller
               /\ result' = Return(out.returned)
    /\ ncalls' = ncalls + 1
    /\ pc' = "done"
    /\ UNCHANGED <<interval, hh_table, project_table, col_list, configuration>>

NextExtract == CallExtractColdest \/ CallExtractPeak

SpecExtract == InitExtract /\ [][NextExtract]_vars

(***************************************************************************)
(* Claims about the extractors.                                            *)
(***************************************************************************)
\* the rows of frame d that an extractor called with `project` works on
InputRows(d, project) ==
    {d.rows[i] : i \in {j \in 1..Len(d.rows) :
                           project = None \/ d.rows[j]["ProjectIdBSV"] = project}}

MarkerColumns == {"Koudste2WkTemperatuur", "HoogstePiekWeek"}

\* the index label of a row and its cells in the columns cols
Cells(row, cols) == [c \in cols \cup {"index"} |-> row[c]]

\* C10: whatever the marking, a call returns exactly the rows of its input
\* (after the optional project pre-filter) that the marker flagged, so no
\* more rows than the input has and, with a project id, none of another
\* project; the marker is given rows of the requested project only.  Rows
\* are compared by index label and by every cell but the marker column the
\* call sets, which is True in every returned row.
C10_ExtractReturnsMarkedRows ==
    [][ncalls' = ncalls + 1 =>
          LET input == InputRows(df, project_id')
              given == marker_arg'.table.rows
              flagged == {given[i] : i \in {j \in 1..Len(given) :
                                               marker_arg'.marking[j]}}
              returned == {result'.value.rows[i] :
                              i \in 1..Len(result'.value.rows)}
          IN  /\ result'.kind = "return"
              /\ {given[i] : i \in 1..Len(given)} = input
              /\ Len(given) = Cardinality(input)
              /\ \E col \in MarkerColumns \cap result'.value.columns :
                     /\ result'.value.columns = df.columns \cup {col}
                     /\ \A row \in returned : row[col]
                     /\ {Cells(row, df.columns \ {col}) : row \in returned}
                            = {Cells(row, df.columns \ {col}) : row \in flagged}
              /\ Len(result'.value.rows) = Cardinality(flagged)
              /\ Len(result'.value.rows) <= Len(df.rows)
              /\ project_id' # None =>
                     /\ \A row \in returned : row["ProjectIdBSV"] = project_id'
                     /\ \A row \in input : row["ProjectIdBSV"] = project_id'
      ]_vars

\* a frame with rows of P1 and P2, a call for P1 whose marker flagged one of
\* the two rows of P1 it was given: that row alone came back
C10_Witness ==
    /\ pc = "done"
    /\ project_id = "P1"
    /\ Len(df.rows) = 3
    /\ Len(marker_arg.table.rows) = 2
    /\ marker_arg.marking = <<FALSE, TRUE>>
    /\ Len(result.value.rows) = 1
    /\ result.value.rows[1]["index"] = marker_arg.table.rows[2]["index"]
    /\ result.value.rows[1]["ProjectIdBSV"] = "P1"

(***************************************************************************)
(* Specification of a caller that holds one frame, with the columns        *)
(* ProjectIdBSV and Diff, and calls the two extractors and the bounded     *)
(* filter on it, up to MaxCalls times in any order, each time with a       *)
(* project id or None.                                                     *)
(***************************************************************************)
CallerFrames ==
    {DataFrame({"ProjectIdBSV", "Diff"},
               [i \in 1..k |-> [index |-> i - 1, ProjectIdBSV |-> p[i],
                                Diff |-> v[i]]]) :
        <<k, p, v>> \in
            UNION {{k} \X [1..k -> ProjectIds] \X [1..k -> {-1, 100}] :
                      k \in 0..MaxFrameRows}}

InitCalls ==
    /\ pc = "call"
    /\ df \in CallerFrames
    /\ project_id = None
    /\ interval = None
    /\ hh_table = None
    /\ project_table = None
    /\ col_list = None
    /\ marker_arg = None
    /\ ncalls = 0
    /\ config = None
    /\ options = None
    /\ files = None
    /\ result = NoResult

\* filter_between_upper_lower_bounds(df, "Diff", project) on the caller's
\* frame: df is rebound or read, never assigned to
CallFilterOnFrame ==
    /\ ncalls < MaxCalls
    /\ \E project \in FilterProjects :
           /\ project_id' = project
           /\ result' = filter_between_upper_lower_bounds(df, "Diff", project)
    /\ ncalls' = ncalls + 1
    /\ pc' = "done"
    /\ UNCHANGED <<interval, hh_table, project_table, col_list, df, marker_arg,
                   configuration>>

NextCalls == CallExtractColdest \/ CallExtractPeak \/ CallFilterOnFrame

SpecCalls == InitCalls /\ [][NextCalls]_vars

(***************************************************************************)
(* Claims about the caller's frame.                                        *)
(***************************************************************************)
\* C11: the helpers never mutate their input: over any sequence of calls of
\* the extractors and the filter, with or without a project id, the caller's
\* frame keeps its columns and its rows (no marker column is added to it).
C11_CallerFrameNeverChanges == [][df' = df]_vars

(***************************************************************************)
(* _config.py.  A parsed YAML value is a record tagged with its Python     *)
(* type: a mapping is Dict(items), YAML's null (an empty file, a section   *)
(* without content) is NoneType.  The items of the top-level mapping are   *)
(* the sequence of <<section, settings>> pairs in document order, the      *)
(* order in which config.items() yields them; the items of a section are   *)
(* a function from its keys to their values.  An option object is the      *)
(* function from its attribute names to their values, and `options` holds  *)
(* the two module-level objects etdmap.options and etdtransform.options    *)
(* under the section names that package_options gives them.                *)
(***************************************************************************)
Dict(items) == [type |-> "dict", items |-> items]

NoneType == [type |-> "NoneType"]

SectionNames == {"etdmap_configuration", "etdtransform_configuration",
                 "analysis_configuration", "other_configuration"}

OptionKeys == {"folder"}

OptionValues == {"x", "y"}

LocalOptionsNames == {"local_configuration", "analysis_options"}

Mappings == UNION {[keys -> OptionValues] : keys \in SUBSET OptionKeys}

Settings == {NoneType} \cup {Dict(items) : items \in Mappings}

DistinctSections(items) ==
    \A i, j \in 1..Len(items) : i # j => items[i][1] # items[j][1]

DocumentsUpTo(n) ==
    {Dict(items) : items \in UNION {{s \in [1..k -> SectionNames \X Settings] :
                                         DistinctSections(s)} : k \in 0..n}}

Documents == DocumentsUpTo(MaxSections) \cup {NoneType}

\* the objects as the packages create them: `folder` is an attribute that
\* etdmap.options knows and etdtransform.options does not
package_options == [etdmap_configuration |-> [folder |-> "default"],
                    etdtransform_configuration |-> <<>>]

\* AttributeError of `.items()` on a value that is not a mapping
NoItemsError == Raise("AttributeError", "object has no attribute 'items'")

setattr(object, key, value) ==
    [name \in DOMAIN object \cup {key} |-> IF name = key THEN value ELSE object[name]]

\* for key, value in settings.items(): setattr(section_options, key, value)
RECURSIVE SetAttributes(_, _, _)
SetAttributes(object, items, keys) ==
    IF keys = {} THEN object
    ELSE LET key == CHOOSE k \in keys : TRUE
         IN  SetAttributes(setattr(object, key, items[key]), items, keys \ {key})

\* the loop over config.items() from its i-th pair on: each section is
\* applied when the loop reaches it, and an exception leaves what the earlier
\* sections have set
RECURSIVE SetConfigFrom(_, _, _, _)
SetConfigFrom(items, i, opts, local_options) ==
    IF i > Len(items)
    THEN [outcome |-> Return(Dict(local_options)), options |-> opts]
    ELSE LET section  == items[i][1]
             settings == items[i][2]
         IN  IF section \in DOMAIN opts
             THEN IF settings.type # "dict"
                  THEN [outcome |-> NoItemsError, options |-> opts]
                  ELSE SetConfigFrom(items, i + 1,
                           [opts EXCEPT ![section] =
                                SetAttributes(opts[section], settings.items,
                                              DOMAIN settings.items)],
                           local_options)
             ELSE IF section = "analysis_configuration"
             THEN IF settings.type # "dict"
                  THEN [outcome |-> NoItemsError, options |-> opts]
                  ELSE SetConfigFrom(items, i + 1, opts,
                           SetAttributes(local_options, settings.items,
                                         DOMAIN settings.items))
             ELSE SetConfigFrom(items, i + 1, opts, local_options)

\* set_config(config, local_options_name): the outcome of the call and the
\* option objects after it; local_options_name is not read
set_config(document, opts, local_options_name) ==
    IF document.type # "dict"
    THEN [outcome |-> NoItemsError, options |-> opts]
    ELSE SetConfigFrom(document.items, 1, opts, <<>>)

InitConfig ==
    /\ pc = "call"
    /\ config = NoneType
    /\ options = package_options
    /\ files = None
    /\ interval = None
    /\ hh_table = None
    /\ project_table = None
    /\ col_list = None
    /\ df = None
    /\ project_id = None
    /\ marker_arg = None
    /\ ncalls = 0
    /\ result = NoResult

CallSetConfig ==
    /\ \E document \in Documents, local_options_name \in LocalOptionsNames :
           LET call == set_config(document, options, local_options_name)
           IN  /\ config' = document
               /\ options' = call.options
               /\ result' = call.outcome
    /\ pc' = "set_config"
    /\ UNCHANGED <<interval, hh_table, project_table, col_list, df, project_id,
                   marker_arg, ncalls, files>>

NextConfig == CallSetConfig

SpecConfig == InitConfig /\ [][NextConfig]_vars

(***************************************************************************)
(* Claims about set_config.                                                *)
(***************************************************************************)
\* the settings that a document gives under a section name, empty when the
\* section is absent or has no content
SettingsUnder(document, section) ==
    IF \E i \in 1..Len(document.items) :
           document.items[i][1] = section /\ document.items[i][2].type = "dict"
    THEN LET i == CHOOSE i \in 1..Len(document.items) : document.items[i][1] = section
         IN  document.items[i][2].items
    ELSE <<>>

Override(object, items) ==
    [name \in DOMAIN object \cup DOMAIN items |->
        IF name \in DOMAIN items THEN items[name] ELSE object[name]]

\* C12: set_config has no partial failure: a call that raises leaves every
\* attribute of both option objects at its value before the call.
C12_RaiseChangesNothing ==
    [][(pc' = "set_config" /\ result'.kind = "raise") => options' = options]_vars

\* C13: over any sequence of calls, each call sets on each option object
\* exactly the keys of that object's section (other attributes keep their
\* values, other sections change nothing) and returns exactly the pairs of
\* its own analysis_configuration section, empty when absent.
C13_RoutingOverCalls ==
    [][(pc' = "set_config" /\ config'.type = "dict") =>
           /\ result' = Return(Dict(SettingsUnder(config', "analysis_configuration")))
           /\ \A section \in DOMAIN options :
                  options'[section] =
                      Override(options[section], SettingsUnder(config', section))]_vars

(***************************************************************************)
(* find_config_file, load_config_file and init_config.  `files` is the     *)
(* part of the file system that the functions look at: for each of the two *)
(* candidate paths, Absent or the document that yaml.safe_load yields from *)
(* the file there (NoneType for an empty file).                            *)
(***************************************************************************)
CwdConfig == "cwd/config.yaml"

ScriptConfig == "script_dir/config.yaml"

Absent == [type |-> "absent"]

exists(fs, path) == fs[path] # Absent

ConfigNotFound ==
    Raise("FileNotFoundError",
          "config.yaml not found in project directory or script location.")

find_config_file_ScriptFirst(fs) ==
    IF exists(fs, ScriptConfig) THEN Return(ScriptConfig)
    ELSE IF exists(fs, CwdConfig) THEN Return(CwdConfig)
    ELSE ConfigNotFound

find_config_file(fs) ==
    IF exists(fs, CwdConfig) THEN Return(CwdConfig)
    ELSE IF exists(fs, ScriptConfig) THEN Return(ScriptConfig)
    ELSE ConfigNotFound

load_config_file(fs, config_path) == fs[config_path]

\* init_config(): the found file is loaded and passed to set_config with the
\* default local_options_name; an exception of find_config_file propagates
init_config(fs, opts) ==
    LET found == find_config_file(fs)
    IN  IF found.kind = "raise"
        THEN [outcome |-> found, options |-> opts]
        ELSE set_config(load_config_file(fs, found.value), opts, "local_configuration")

FileContents == {Absent, NoneType} \cup DocumentsUpTo(MaxFileSections)

InitInitConfig ==
    /\ pc = "call"
    /\ files \in [{CwdConfig, ScriptConfig} -> FileContents]
    /\ config = NoneType
    /\ options = package_options
    /\ interval = None
    /\ hh_table = None
    /\ project_table = None
    /\ col_list = None
    /\ df = None
    /\ project_id = None
    /\ marker_arg = None
    /\ ncalls = 0
    /\ result = NoResult

CallFindConfigFile ==
    /\ result' = find_config_file(files)
    /\ pc' = "find_config_file"
    /\ UNCHANGED <<arguments>>

CallInitConfig ==
    /\ LET call == init_config(files, options)
       IN  /\ options' = call.options
           /\ result' = call.outcome
    /\ pc' = "init_config"
    /\ UNCHANGED <<interval, hh_table, project_table, col_list, df, project_id,
                   marker_arg, ncalls, config, files>>

NextInitConfig == CallFindConfigFile \/ CallInitConfig

SpecInitConfig == InitInitConfig /\ [][NextInitConfig]_vars

(***************************************************************************)
(* Claims about find_config_file and init_config.                          *)
(***************************************************************************)
\* C15: find_config_file returns the path in the working directory when
\* config.yaml exists there, whether or not one exists in the module's
\* directory; otherwise the path in the module's directory when it exists
\* there; when neither exists it raises FileNotFoundError, and init_config
\* then raises it too and changes no option object.
C15_FindConfigFilePriority ==
    [][/\ pc' = "find_config_file" =>
              /\ files[CwdConfig] # Absent => result' = Return(CwdConfig)
              /\ (files[CwdConfig] = Absent /\ files[ScriptConfig] # Absent)
                     => result' = Return(ScriptConfig)
              /\ (files[CwdConfig] = Absent /\ files[ScriptConfig] = Absent)
                     => (result'.kind = "raise" /\ result'.value = "FileNotFoundError")
       /\ (/\ pc' = "init_config"
           /\ files[CwdConfig] = Absent
           /\ files[ScriptConfig] = Absent)
              => /\ result'.kind = "raise"
                 /\ result'.value = "FileNotFoundError"
                 /\ options' = options]_vars

C15_Witness ==
    /\ pc = "find_config_file"
    /\ files[CwdConfig] # Absent
    /\ files[ScriptConfig] # Absent
    /\ result = Return(CwdConfig)

(***************************************************************************)
(* data_loaders.py: get_project_table.  The table-loading library is       *)
(* outside the repository: get_project_tables() is the mapping it returns, *)
(* from an interval label to the project table stored for it.  NULL is the *)
(* cell of a left join's unmatched row.                                    *)
(***************************************************************************)
NULL == <<0, 0>>

KeyError(key) == Raise("KeyError", key)

\* the list that line 55 assigns to col_list
HardcodedColumns ==
    <<"ZelfgebruikPer100M2KW", "ZonopwekBrutoPer100M2KW",
      "ElektriciteitsgebruikTotaalBrutoPer100M2KW",
      "TerugleveringTotaalNettoPer100M2KW", "Warmtebehoefte">>

get_project_tables(stored) == [label \in {"15min"} |-> stored]

\* the name that a column of the right table gets in the join's result
RightName(left, c) == IF c \in left.columns THEN c \o "_right" ELSE c

\* left.join(right, ["ProjectIdBSV", "ReadingDate"], how="left"): each row of
\* left with each row of right of its key, or with NULLs when there is none;
\* the key columns appear once
RECURSIVE LeftJoinRows(_, _, _, _)
LeftJoinRows(left, right, columns, i) ==
    IF i > Len(left.rows) THEN <<>>
    ELSE LET l == left.rows[i]
             SameKey(r) == RowKey(r) = RowKey(l)
             matches == SelectSeq(right.rows, SameKey)
             From(c) == CHOOSE rc \in right.columns \ KeyColumns :
                            RightName(left, rc) = c
             Merged(r) == [c \in columns |->
                              IF c \in left.columns THEN l[c] ELSE r[From(c)]]
             Unmatched == [c \in columns |->
                              IF c \in left.columns THEN l[c] ELSE NULL]
         IN  (IF matches = <<>> THEN <<Unmatched>>
              ELSE [m \in 1..Len(matches) |-> Merged(matches[m])])
             \o LeftJoinRows(left, right, columns, i + 1)

LeftJoin(left, right) ==
    LET columns == left.columns \cup
                   {RightName(left, c) : c \in right.columns \ KeyColumns}
    IN  Table(columns, LeftJoinRows(left, right, columns, 1))

\* get_project_table(hh_table, interval, col_list), `stored` being the table
\* the library holds and `order` the order in which the backend returns the
\* rows.  The caller's col_list is overwritten before it is read, and the
\* aggregator gets the project table as its measurement table and hh_table
\* as its reference table; the order of the aggregated rows does not reach
\* the join's result.
get_project_table(hh, label, cols, stored, order) ==
    LET dfs_tables == get_project_tables(stored)
    IN  IF label \notin DOMAIN dfs_tables THEN KeyError(label)
        ELSE LET table == dfs_tables[label]
                 groups == Len(GroupKeys(SemiJoin(table, hh).rows, 1, <<>>))
                 aggregated_metrics ==
                     aggregate_project_metrics(table, hh, HardcodedColumns,
                                               [g \in 1..groups |-> g])
             IN  IF aggregated_metrics.kind = "raise" THEN aggregated_metrics
                 ELSE Return(Reorder(LeftJoin(table, aggregated_metrics.value),
                                     order))

ProjectRows ==
    [ProjectIdBSV : ProjectIds, ReadingDate : ReadingDates,
     ZelfgebruikPer100M2KW : {Rat(0, 1)},
     ZonopwekBrutoPer100M2KW : {Rat(0, 1)},
     ElektriciteitsgebruikTotaalBrutoPer100M2KW : {Rat(0, 1)},
     TerugleveringTotaalNettoPer100M2KW : {Rat(0, 1)},
     Warmtebehoefte : {Rat(3, 1), Rat(9, 1)}]

Restrict(row, columns) == [c \in columns |-> row[c]]

\* project tables that hold every column of the hard-coded list, and ones
\* that hold only Warmtebehoefte of them
ProjectTables ==
    {Table(columns, [i \in 1..Len(rows) |-> Restrict(rows[i], columns)]) :
        <<columns, rows>> \in
            {KeyColumns \cup {HardcodedColumns[i] : i \in 1..Len(HardcodedColumns)},
             KeyColumns \cup {"Warmtebehoefte"}}
            \X UNION {[1..k -> ProjectRows] : k \in 0..MaxRefRows}}

InitProjectTable ==
    /\ pc = "call"
    /\ hh_table \in
           {Table(KeyColumns \cup {"Warmtebehoefte", "Oppervlakte"}, rows) :
               rows \in UNION {[1..k -> HHRows] : k \in 0..MaxHHRows}}
    /\ project_table \in ProjectTables
    /\ interval \in {"15min", "5min"}
    /\ col_list \in {<<"Warmtebehoefte">>, <<"Oppervlakte">>}
    /\ df = None
    /\ project_id = None
    /\ marker_arg = None
    /\ ncalls = 0
    /\ config = None
    /\ options = None
    /\ files = None
    /\ result = NoResult

CallGetProjectTable ==
    /\ pc = "call"
    /\ \E order \in Permutations(1..Len(project_table.rows)) :
           result' = get_project_table(hh_table, interval, col_list,
                                       project_table, order)
    /\ pc' = "done"
    /\ UNCHANGED arguments

NextProjectTable == CallGetProjectTable

SpecProjectTable == InitProjectTable /\ [][NextProjectTable]_vars

(***************************************************************************)
(* Claims about get_project_table.                                         *)
(***************************************************************************)
\* the mean of col over the rows of hh that have key k, NULL without one
HouseholdMean(hh, k, col) ==
    IF RowsWithKey(hh, k) = {} THEN NULL ELSE GroupMean(hh.rows, k, col)

\* C14: for a stored interval and a col_list of columns of hh_table, the
\* result holds every row of the project table exactly once, with all its
\* columns, and with each column of the caller's col_list as the mean of
\* that column over the rows of hh_table of the row's key, empty when
\* hh_table has no row of that key.
C14_ProjectTableWithHouseholdMeans ==
    (/\ pc = "done"
     /\ interval \in DOMAIN get_project_tables(project_table)
     /\ \A j \in 1..Len(col_list) : col_list[j] \in hh_table.columns)
    => /\ result.kind = "return"
       /\ Len(result.value.rows) = Len(project_table.rows)
       /\ \E order \in Permutations(1..Len(project_table.rows)) :
              \A i \in 1..Len(project_table.rows) :
                  LET row == result.value.rows[i]
                      p   == project_table.rows[order[i]]
                  IN  /\ \A c \in project_table.columns :
                             c \in DOMAIN row /\ row[c] = p[c]
                      /\ \A j \in 1..Len(col_list) :
                             LET name == RightName(project_table, col_list[j])
                             IN  /\ name \in DOMAIN row
                                 /\ row[name] = HouseholdMean(hh_table, RowKey(p),
                                                              col_list[j])

====
